---- MODULE Spec2Model ----
(***************************************************************************)
(* Model of interpolateFeaturePoints.py: the driver script that builds a   *)
(* uniform time grid, loads waveform feature points from a csv file,       *)
(* interpolates them with a PCHIP interpolant, scales the result to a      *)
(* flow rate and saves it as a csv file.                                   *)
(*                                                                         *)
(* Numbers.  The script computes in floating point.  Here every real       *)
(* quantity is an exact rational <<n, d>> (d > 0, lowest terms), so the    *)
(* model states what the arithmetic of the script computes up to IEEE      *)
(* rounding; rounding itself is not modelled.  Flow rates carry a power of *)
(* ten besides, <<n, d, e>> = (n/d) * 10^e, which keeps the numerator and  *)
(* denominator of 1e-6/60 times an interpolated value within 32 bits.      *)
(***************************************************************************)
EXTENDS Integers, Sequences, FiniteSets, TLC

(***************************************************************************)
(* Exact rational arithmetic                                               *)
(***************************************************************************)
Abs(n) == IF n < 0 THEN -n ELSE n

RECURSIVE GCD(_, _)
GCD(a, b) == IF b = 0 THEN a ELSE GCD(b, a % b)

Rat(n, d) ==
    LET g == GCD(Abs(n), Abs(d))
        s == IF d < 0 THEN -1 ELSE 1
    IN  <<s * (n \div g), s * (d \div g)>>

RInt(n) == <<n, 1>>
RZero == <<0, 1>>
RAdd(a, b) ==
    LET g == GCD(a[2], b[2])
    IN  Rat(a[1] * (b[2] \div g) + b[1] * (a[2] \div g), a[2] * (b[2] \div g))
RNeg(a) == <<-a[1], a[2]>>
RSub(a, b) == RAdd(a, RNeg(b))
RMul(a, b) ==
    LET x == Rat(a[1], b[2])
        y == Rat(b[1], a[2])
    IN  <<x[1] * y[1], x[2] * y[2]>>
RDiv(a, b) == RMul(a, Rat(b[2], b[1]))
RSign(a) == IF a[1] > 0 THEN 1 ELSE IF a[1] < 0 THEN -1 ELSE 0
RLt(a, b) == RSign(RSub(a, b)) < 0
RLe(a, b) == RSign(RSub(a, b)) <= 0
RAbs(a) == <<Abs(a[1]), a[2]>>
\* ceil(a) as an integer
RCeil(a) == -((-a[1]) \div a[2])

(***************************************************************************)
(* Flow rates: (n/d) * 10^e, with d coprime to 10 and n no multiple of 10  *)
(***************************************************************************)
RECURSIVE SciNorm(_, _, _)
SciNorm(n, d, e) ==
    IF n = 0 THEN <<0, 1, 0>>
    ELSE IF d % 2 = 0 THEN SciNorm(n * 5, d \div 2, e - 1)
    ELSE IF d % 5 = 0 THEN SciNorm(n * 2, d \div 5, e - 1)
    ELSE IF n % 10 = 0 THEN SciNorm(n \div 10, d, e + 1)
    ELSE <<n, d, e>>
Sci(r, e) == SciNorm(r[1], r[2], e)
SciMul(a, b) ==
    LET m == RMul(<<a[1], a[2]>>, <<b[1], b[2]>>)
    IN  SciNorm(m[1], m[2], a[3] + b[3])

(***************************************************************************)
(* Sequences                                                               *)
(***************************************************************************)
SeqsUpTo(S, n) == UNION {[1..k -> S] : k \in 0..n}
StrictlyIncreasing(x) == \A i \in 1..(Len(x) - 1) : RLt(x[i], x[i + 1])
IsPrefix(s, u) == Len(s) <= Len(u) /\ \A i \in 1..Len(s) : s[i] = u[i]

(***************************************************************************)
(* numpy.arange(start, stop, step): ceil((stop - start)/step) values       *)
(* start + i*step, none when that count is not positive                    *)
(***************************************************************************)
arange(start, stop, step) ==
    LET n == RCeil(RDiv(RSub(stop, start), step))
    IN  [i \in 1..(IF n > 0 THEN n ELSE 0) |-> RAdd(start, RMul(RInt(i - 1), step))]

(***************************************************************************)
(* scipy.interpolate.PchipInterpolator, as interpolateFeatures uses it     *)
(***************************************************************************)
\* PchipAccepts asking for one knot too many
PchipAcceptsThreeKnots(x, y) ==
    /\ Len(x) >= 3
    /\ Len(x) = Len(y)
    /\ StrictlyIncreasing(x)

\* the checks of the constructor: at least 2 knots, as many values as
\* knots, knots strictly increasing
PchipAccepts(x, y) ==
    /\ Len(x) >= 2
    /\ Len(x) = Len(y)
    /\ StrictlyIncreasing(x)

\* hk: the spacing of the knots; mk: the slope of each segment
Spacing(x) == [k \in 1..(Len(x) - 1) |-> RSub(x[k + 1], x[k])]
Slopes(x, y) ==
    [k \in 1..(Len(x) - 1) |-> RDiv(RSub(y[k + 1], y[k]), RSub(x[k + 1], x[k]))]

\* EdgeCase without the limits that preserve the shape
EdgeCaseUnlimited(h0, h1, m0, m1) ==
    RDiv(RSub(RMul(RAdd(RMul(RInt(2), h0), h1), m0), RMul(h0, m1)), RAdd(h0, h1))

\* the one-sided three-point estimate of the derivative at an end knot,
\* limited to preserve the shape
EdgeCase(h0, h1, m0, m1) ==
    LET d == RDiv(RSub(RMul(RAdd(RMul(RInt(2), h0), h1), m0), RMul(h0, m1)),
                  RAdd(h0, h1))
    IN  IF RSign(d) # RSign(m0) THEN RZero
        ELSE IF RSign(m0) # RSign(m1) /\ RLt(RMul(RInt(3), RAbs(m0)), RAbs(d))
             THEN RMul(RInt(3), m0)
        ELSE d

\* the derivative at an interior knot: 0 where the slopes on its two sides
\* differ in sign or one is 0, their weighted harmonic mean otherwise
InteriorDerivative(hPrev, hNext, mPrev, mNext) ==
    IF RSign(mPrev) # RSign(mNext) \/ RSign(mNext) = 0 \/ RSign(mPrev) = 0
    THEN RZero
    ELSE LET w1 == RAdd(RMul(RInt(2), hNext), hPrev)
             w2 == RAdd(hNext, RMul(RInt(2), hPrev))
             whmean == RDiv(RAdd(RDiv(w1, mPrev), RDiv(w2, mNext)), RAdd(w1, w2))
         IN  RDiv(RInt(1), whmean)

FindDerivatives(x, y) ==
    LET hk == Spacing(x)
        mk == Slopes(x, y)
        n == Len(x)
    IN  IF n = 2 THEN <<mk[1], mk[1]>>
        ELSE [k \in 1..n |->
                IF k = 1 THEN EdgeCase(hk[1], hk[2], mk[1], mk[2])
                ELSE IF k = n
                     THEN EdgeCase(hk[n - 1], hk[n - 2], mk[n - 1], mk[n - 2])
                ELSE InteriorDerivative(hk[k - 1], hk[k], mk[k - 1], mk[k])]

\* HermiteCoefficients with the quadratic coefficient short of its "- t"
HermiteCoefficientsNoT(x, y, dydx, k) ==
    LET dx == RSub(x[k + 1], x[k])
        slope == RDiv(RSub(y[k + 1], y[k]), dx)
        tt == RDiv(RSub(RAdd(dydx[k], dydx[k + 1]), RMul(RInt(2), slope)), dx)
    IN  << RDiv(tt, dx),
           RDiv(RSub(slope, dydx[k]), dx),
           dydx[k],
           y[k] >>

\* the coefficients of the cubic of segment k, highest power first, in
\* powers of (x - x[k])
HermiteCoefficients(x, y, dydx, k) ==
    LET dx == RSub(x[k + 1], x[k])
        slope == RDiv(RSub(y[k + 1], y[k]), dx)
        tt == RDiv(RSub(RAdd(dydx[k], dydx[k + 1]), RMul(RInt(2), slope)), dx)
    IN  << RDiv(tt, dx),
           RSub(RDiv(RSub(slope, dydx[k]), dx), tt),
           dydx[k],
           y[k] >>

\* the segment that holds xv: k with x[k] <= xv < x[k+1]; the first
\* segment below the knots, the last one at and above the last knot
RECURSIVE FindInterval(_, _, _)
FindInterval(x, xv, k) ==
    IF k >= Len(x) - 1 THEN Len(x) - 1
    ELSE IF RLt(xv, x[k + 1]) THEN k
    ELSE FindInterval(x, xv, k + 1)

EvaluatePoly(c, s) ==
    RAdd(c[4], RAdd(RMul(c[3], s),
         RAdd(RMul(c[2], RMul(s, s)), RMul(c[1], RMul(s, RMul(s, s))))))

PchipEvaluate(x, y, xv) ==
    LET k == FindInterval(x, xv, 1)
    IN  EvaluatePoly(HermiteCoefficients(x, y, FindDerivatives(x, y), k),
                     RSub(xv, x[k]))

\* interpolateFeatures(t, T, V), for knots the constructor accepts
interpolateFeatures(tt, TT, VV) == [i \in 1..Len(tt) |-> PchipEvaluate(TT, VV, tt[i])]

(***************************************************************************)
(* Files                                                                   *)
(***************************************************************************)
\* a file: whether it exists, whether every cell parses as a number, its
\* header row (none: <<>>) and its data rows
NoFile == [exists |-> FALSE, numeric |-> TRUE, header |-> <<>>, rows |-> <<>>]
CsvFile(h, r) == [exists |-> TRUE, numeric |-> TRUE, header |-> h, rows |-> r]
GarbledFile == [exists |-> TRUE, numeric |-> FALSE, header |-> <<>>, rows |-> <<>>]

\* loadFeaturePoints without the offset to t = 0
loadFeaturePointsNoOffset(file) ==
    LET data == file.rows
    IN  [ok |-> file.exists /\ file.numeric /\ Len(data) >= 1,
         T  |-> [i \in 1..Len(data) |-> RMul(RInt(data[i][1]), Rat(1, 1000))],
         V  |-> [i \in 1..Len(data) |-> data[i][2]]]

\* loadFeaturePoints(inputFile): read_csv raises on a missing or empty
\* file, the subtraction raises on text; else T is column 0 less its first
\* entry, times 1e-3, and V is column 1
loadFeaturePoints(file) ==
    LET data == file.rows
    IN  [ok |-> file.exists /\ file.numeric /\ Len(data) >= 1,
         T  |-> [i \in 1..Len(data) |->
                   RMul(RSub(RInt(data[i][1]), RMul(RInt(1), RInt(data[1][1]))),
                        Rat(1, 1000))],
         V  |-> [i \in 1..Len(data) |-> data[i][2]]]

\* saveFlowRateData appending to the file instead of replacing it
saveFlowRateDataAppend(fsys, name, tt, flowRate) ==
    [fsys EXCEPT ![name \o ".csv"] =
        CsvFile(<<"t", "flow">>,
                @.rows \o [i \in 1..Len(tt) |-> <<tt[i], flowRate[i]>>])]

\* saveFlowRateData(outputName, t, flowRate): the file outputName + '.csv'
\* is replaced by the header t,flow and one row per pair
saveFlowRateData(fsys, name, tt, flowRate) ==
    [fsys EXCEPT ![name \o ".csv"] =
        CsvFile(<<"t", "flow">>, [i \in 1..Len(tt) |-> <<tt[i], flowRate[i]>>])]

(***************************************************************************)
(* The driver                                                              *)
(***************************************************************************)
featuresInput == "data/Hoi-featurePoints-normalized"
artery == "_ECA"
outputName == "Hoi-OlderAdults-Waveform"
t_0 == 0
t_f == 1
meanFlowRate == 2
conversionConst == Sci(Rat(1, 60), -6)

inputPath == featuresInput \o artery \o ".csv"
outputPath == outputName \o artery \o ".csv"

\* ScaleFlow without the unit conversion
ScaleFlowNoConversion(mean, interp, conv) ==
    [i \in 1..Len(interp) |-> SciMul(Sci(mean, 0), Sci(interp[i], 0))]

\* ScaleFlow without the mean flow rate
ScaleFlowIgnoresMean(mean, interp, conv) ==
    [i \in 1..Len(interp) |-> SciMul(Sci(interp[i], 0), conv)]

\* convertedFlow = meanFlowRate*interpCCA*conversionConst
ScaleFlow(mean, interp, conv) ==
    [i \in 1..Len(interp) |-> SciMul(SciMul(Sci(mean, 0), Sci(interp[i], 0)), conv)]

Stages == <<"Load", "Interpolate", "Scale", "Write">>

VARIABLES
    fs,             \* the files, by path
    outWritable,    \* whether the output path can be written
    cfg,            \* t_0, t_f, dt, meanFlowRate of the driver
    pc,             \* where the run is
    t,              \* the time grid
    T_CCA, V_CCA,   \* the feature points loaded
    interpCCA,      \* the interpolation on the grid
    convertedFlow,  \* the flow rate on the grid
    log,            \* the stages this run has entered, in order
    writes,         \* how often this run has written the output file
    runs,           \* the number of the run
    outBefore       \* the output file as this run found it

vars == <<fs, outWritable, cfg, pc, t, T_CCA, V_CCA, interpCCA, convertedFlow,
          log, writes, runs, outBefore>>

\* bounds of the model
MaxRows == 3
MaxRuns == 2

RawTimes == {0, 500, 1000}
RawValues == {RInt(0), RInt(1)}
InputFiles ==
    {NoFile, GarbledFile}
    \cup {CsvFile(<<>>, r) : r \in SeqsUpTo(RawTimes \X RawValues, MaxRows)}
StaleFile == CsvFile(<<"t", "flow">>, << <<RZero, <<7, 1, 0>>>> >>)

\* the script's t_0 and t_f, its meanFlowRate and another, and steps
\* coarser than the script's own 0.0001 (which is in GridConfigs)
DriverConfigs ==
    {[t_0 |-> RInt(t_0), t_f |-> RInt(t_f), dt |-> d, meanFlowRate |-> RInt(m)] :
        d \in {Rat(1, 2), Rat(1, 4)}, m \in {meanFlowRate, 3}}

Init ==
    /\ \E f \in InputFiles, o \in {NoFile, StaleFile} :
          fs = (inputPath :> f) @@ (outputPath :> o)
    /\ outWritable \in BOOLEAN
    /\ cfg \in DriverConfigs
    /\ pc = "start"
    /\ t = <<>> /\ T_CCA = <<>> /\ V_CCA = <<>>
    /\ interpCCA = <<>> /\ convertedFlow = <<>>
    /\ log = <<>>
    /\ writes = 0
    /\ runs = 1
    /\ outBefore = fs[outputPath]

\* MakeGrid with the stop of the range at t_f
MakeGridStopsAtTf ==
    /\ pc = "start"
    /\ t' = arange(cfg.t_0, cfg.t_f, cfg.dt)
    /\ pc' = "grid"
    /\ UNCHANGED <<fs, outWritable, cfg, T_CCA, V_CCA, interpCCA, convertedFlow,
                   log, writes, runs, outBefore>>

\* t = np.arange(t_0, t_f+dt, dt)
MakeGrid ==
    /\ pc = "start"
    /\ t' = arange(cfg.t_0, RAdd(cfg.t_f, cfg.dt), cfg.dt)
    /\ pc' = "grid"
    /\ UNCHANGED <<fs, outWritable, cfg, T_CCA, V_CCA, interpCCA, convertedFlow,
                   log, writes, runs, outBefore>>

\* T_CCA, V_CCA = loadFeaturePoints(featuresInput+artery+'.csv')
Load ==
    /\ pc = "grid"
    /\ log' = Append(log, "Load")
    /\ LET got == loadFeaturePoints(fs[featuresInput \o artery \o ".csv"])
       IN  \/ /\ got.ok
              /\ T_CCA' = got.T
              /\ V_CCA' = got.V
              /\ pc' = "loaded"
           \/ /\ ~got.ok
              /\ pc' = "failed"
              /\ UNCHANGED <<T_CCA, V_CCA>>
    /\ UNCHANGED <<fs, outWritable, cfg, t, interpCCA, convertedFlow,
                   writes, runs, outBefore>>

\* Interpolate not waiting for the feature points
InterpolateAnytime ==
    /\ pc \in {"grid", "loaded"}
    /\ log' = Append(log, "Interpolate")
    /\ \/ /\ PchipAccepts(T_CCA, V_CCA)
          /\ interpCCA' = interpolateFeatures(t, T_CCA, V_CCA)
          /\ pc' = "interpolated"
       \/ /\ ~PchipAccepts(T_CCA, V_CCA)
          /\ pc' = "failed"
          /\ UNCHANGED interpCCA
    /\ UNCHANGED <<fs, outWritable, cfg, t, T_CCA, V_CCA, convertedFlow,
                   writes, runs, outBefore>>

\* Interpolate going on after the interpolator's error
InterpolateSwallowsError ==
    /\ pc = "loaded"
    /\ log' = Append(log, "Interpolate")
    /\ \/ /\ PchipAccepts(T_CCA, V_CCA)
          /\ interpCCA' = interpolateFeatures(t, T_CCA, V_CCA)
       \/ /\ ~PchipAccepts(T_CCA, V_CCA)
          /\ interpCCA' = [i \in 1..Len(t) |-> RZero]
    /\ pc' = "interpolated"
    /\ UNCHANGED <<fs, outWritable, cfg, t, T_CCA, V_CCA, convertedFlow,
                   writes, runs, outBefore>>

\* interpCCA = interpolateFeatures(t, T_CCA, V_CCA)
Interpolate ==
    /\ pc = "loaded"
    /\ log' = Append(log, "Interpolate")
    /\ \/ /\ PchipAccepts(T_CCA, V_CCA)
          /\ interpCCA' = interpolateFeatures(t, T_CCA, V_CCA)
          /\ pc' = "interpolated"
       \/ /\ ~PchipAccepts(T_CCA, V_CCA)
          /\ pc' = "failed"
          /\ UNCHANGED interpCCA
    /\ UNCHANGED <<fs, outWritable, cfg, t, T_CCA, V_CCA, convertedFlow,
                   writes, runs, outBefore>>

\* convertedFlow = meanFlowRate*interpCCA*conversionConst
Scale ==
    /\ pc = "interpolated"
    /\ log' = Append(log, "Scale")
    /\ convertedFlow' = ScaleFlow(cfg.meanFlowRate, interpCCA, conversionConst)
    /\ pc' = "scaled"
    /\ UNCHANGED <<fs, outWritable, cfg, t, T_CCA, V_CCA, interpCCA,
                   writes, runs, outBefore>>

\* saveFlowRateData(outputName+artery, t, convertedFlow)
Write ==
    /\ pc = "scaled"
    /\ log' = Append(log, "Write")
    /\ \/ /\ outWritable
          /\ fs' = saveFlowRateData(fs, outputName \o artery, t, convertedFlow)
          /\ writes' = writes + 1
          /\ pc' = "done"
       \/ /\ ~outWritable
          /\ pc' = "failed"
          /\ UNCHANGED <<fs, writes>>
    /\ UNCHANGED <<outWritable, cfg, t, T_CCA, V_CCA, interpCCA, convertedFlow,
                   runs, outBefore>>

\* the script is run again, on the same files and with the same constants
Rerun ==
    /\ pc \in {"done", "failed"}
    /\ runs < MaxRuns
    /\ runs' = runs + 1
    /\ pc' = "start"
    /\ t' = <<>> /\ T_CCA' = <<>> /\ V_CCA' = <<>>
    /\ interpCCA' = <<>> /\ convertedFlow' = <<>>
    /\ log' = <<>>
    /\ writes' = 0
    /\ outBefore' = fs[outputPath]
    /\ UNCHANGED <<fs, outWritable, cfg>>

Next == MakeGrid \/ Load \/ Interpolate \/ Scale \/ Write \/ Rerun

Spec == Init /\ [][Next]_vars

(***************************************************************************)
(* interpolateFeatures alone, called on arbitrary arguments                *)
(***************************************************************************)
MaxKnots == 3

KnotTimes == {RZero, Rat(1, 4), Rat(3, 4), RInt(1)}
KnotValues == {RInt(0), RInt(1), RInt(3)}
\* target times: a fine grid over the knots' range, one that leaves it on
\* both sides, one out of order, a coarse one
TargetGrids ==
    { arange(RZero, Rat(9, 8), Rat(1, 8)),
      arange(Rat(-1, 4), Rat(3, 2), Rat(1, 4)),
      <<RInt(1), Rat(1, 2), RZero>>,
      arange(Rat(1, 4), RInt(1), Rat(1, 2)) }

ReferenceConfig ==
    [t_0 |-> RInt(t_0), t_f |-> RInt(t_f), dt |-> Rat(1, 10000),
     meanFlowRate |-> RInt(meanFlowRate)]

InitInterp ==
    /\ fs = (inputPath :> NoFile) @@ (outputPath :> NoFile)
    /\ outWritable = TRUE
    /\ cfg = ReferenceConfig
    /\ pc = "loaded"
    /\ t \in TargetGrids
    /\ \E n \in 0..MaxKnots :
          /\ T_CCA \in [1..n -> KnotTimes]
          /\ V_CCA \in [1..n -> KnotValues]
    /\ interpCCA = <<>> /\ convertedFlow = <<>>
    /\ log = <<"Load">>
    /\ writes = 0
    /\ runs = 1
    /\ outBefore = NoFile

SpecInterp == InitInterp /\ [][Interpolate]_vars

(***************************************************************************)
(* The time grid alone, for other t_0, t_f and dt than the script's        *)
(***************************************************************************)
GridConfigs ==
    {[t_0 |-> a, t_f |-> b, dt |-> d, meanFlowRate |-> RInt(meanFlowRate)] :
        a \in {RZero, Rat(1, 4), Rat(1, 2)},
        b \in {Rat(1, 2), RInt(1), RInt(2)},
        d \in {Rat(1, 10000), Rat(1, 10), Rat(1, 4), Rat(3, 10), Rat(1, 2),
               RInt(1), Rat(3, 2)}}

InitGrid ==
    /\ fs = (inputPath :> NoFile) @@ (outputPath :> NoFile)
    /\ outWritable = TRUE
    /\ cfg \in GridConfigs
    /\ pc = "start"
    /\ t = <<>> /\ T_CCA = <<>> /\ V_CCA = <<>>
    /\ interpCCA = <<>> /\ convertedFlow = <<>>
    /\ log = <<>>
    /\ writes = 0
    /\ runs = 1
    /\ outBefore = NoFile

SpecGrid == InitGrid /\ [][MakeGrid]_vars

(***************************************************************************)
(* Properties                                                              *)
(***************************************************************************)
InputRows == fs[inputPath].rows
\* loadFeaturePoints has returned in this run
LoadReturned == Len(log) >= 1 /\ ~(pc = "failed" /\ Len(log) = 1)
\* interpolateFeatures has returned in this run
InterpolateReturned == Len(log) >= 2 /\ ~(pc = "failed" /\ Len(log) = 2)
\* interpolateFeatures has raised in this run
InterpolateRaised == pc = "failed" /\ Len(log) = 2

\* C1: loading a file of at least one row returns, with T as long as the
\* file, T[0] = 0, T[i] = (rawIndex[i] - rawIndex[0]) * 1e-3, and V the
\* second column in file order.
C1_TimeNormalization ==
    LET file == fs[inputPath]
    IN  /\ (Len(log) >= 1 /\ file.exists /\ file.numeric /\ Len(file.rows) >= 1)
            => LoadReturned
        /\ LoadReturned =>
            /\ Len(T_CCA) = Len(InputRows)
            /\ Len(V_CCA) = Len(InputRows)
            /\ T_CCA[1] = <<0, 1>>
            /\ \A i \in 1..Len(InputRows) :
                  /\ T_CCA[i] = Rat(InputRows[i][1] - InputRows[1][1], 1000)
                  /\ V_CCA[i] = InputRows[i][2]

C1_Witness ==
    /\ LoadReturned
    /\ Len(InputRows) >= 2
    /\ InputRows[1][1] # 0
    /\ InputRows[2][1] # InputRows[1][1]

\* C6: interpolateFeatures raises, returning nothing, whenever knownTimes
\* has fewer than 2 points or is not strictly increasing, and returns only
\* when knownTimes is strictly increasing with at least 2 points.
C6_DegenerateInputFails ==
    LET good == /\ Len(T_CCA) >= 2
                /\ \A i \in 1..(Len(T_CCA) - 1) :
                      T_CCA[i][1] * T_CCA[i + 1][2] < T_CCA[i + 1][1] * T_CCA[i][2]
    IN  /\ InterpolateReturned => good /\ Len(interpCCA) = Len(t)
        /\ InterpolateRaised => ~good /\ interpCCA = <<>>
        /\ Len(log) >= 2 => (InterpolateReturned \/ InterpolateRaised)

C6_Witness ==
    /\ InterpolateRaised
    /\ Len(T_CCA) >= 2
    /\ \E i \in 1..(Len(T_CCA) - 1) : T_CCA[i] = T_CCA[i + 1]

C4_EndToEnd ==
    LET out == fs[outputPath]
    IN  pc = "done" =>
            /\ out.exists
            /\ out.header = <<"t", "flow">>
            /\ Len(out.rows) = Len(t)
            /\ \A i \in 1..Len(t) :
                  out.rows[i] =
                      <<t[i], Sci(RMul(RMul(cfg.meanFlowRate, interpCCA[i]), Rat(1, 60)), -6)>>
            /\ ( /\ InputRows = << <<0, RInt(0)>>, <<500, RInt(1)>>, <<1000, RInt(0)>> >>
                 /\ cfg.t_0 = RInt(0) /\ cfg.t_f = RInt(1) /\ cfg.dt = Rat(1, 2)
                 /\ cfg.meanFlowRate = RInt(2) )
               => out.rows = << <<RInt(0), Sci(RZero, 0)>>,
                                <<Rat(1, 2), Sci(Rat(2 * 1, 60), -6)>>,
                                <<RInt(1), Sci(RZero, 0)>> >>

C4_Witness ==
    /\ pc = "done"
    /\ InputRows = << <<0, RInt(0)>>, <<500, RInt(1)>>, <<1000, RInt(0)>> >>
    /\ cfg.dt = Rat(1, 2)
    /\ cfg.meanFlowRate = RInt(2)
    /\ Len(fs[outputPath].rows) = 3

\* C5 as claimed: the grid ends at tf with nothing beyond it, and has
\* (tf - t0)/dt + 1 uniformly spaced points from t0 to tf.
C5_GridEndsAtTf ==
    pc = "grid" =>
        /\ Len(t) >= 1
        /\ t[1] = cfg.t_0
        /\ t[Len(t)] = cfg.t_f
        /\ RInt(Len(t)) = RAdd(RDiv(RSub(cfg.t_f, cfg.t_0), cfg.dt), RInt(1))

\* C5, amended: the grid starts at t0, is uniformly spaced by dt and stays
\* below tf + dt; when tf - t0 is a whole multiple of dt it has
\* (tf - t0)/dt + 1 points and ends at tf (10001 points from 0 to 1 for
\* t0 = 0, tf = 1, dt = 0.0001); otherwise it has floor((tf - t0)/dt) + 2
\* points, does not hold tf and ends beyond tf.
C5_GridHalfOpenRange ==
    LET n == Len(t)
        span == RDiv(RSub(cfg.t_f, cfg.t_0), cfg.dt)
        lt(a, b) == a[1] * b[2] < b[1] * a[2]
    IN  pc = "grid" =>
            /\ n >= 1
            /\ t[1] = cfg.t_0
            /\ \A i \in 1..(n - 1) : RSub(t[i + 1], t[i]) = cfg.dt
            /\ lt(t[n], RAdd(cfg.t_f, cfg.dt))
            /\ span[2] = 1 => (n = span[1] + 1 /\ t[n] = cfg.t_f)
            /\ span[2] # 1 =>
                  /\ n = (span[1] \div span[2]) + 2
                  /\ lt(cfg.t_f, t[n])
                  /\ \A i \in 1..n : t[i] # cfg.t_f
            /\ cfg = ReferenceConfig =>
                  (n = 10001 /\ t[1] = <<0, 1>> /\ t[n] = <<1, 1>>)

C5_Witness ==
    /\ pc = "grid"
    /\ cfg.t_0 = RInt(0) /\ cfg.t_f = RInt(1) /\ cfg.dt = Rat(1, 10000)
    /\ Len(t) = 10001

\* C7: a second run on the same input file, constants and output path
\* leaves the output file with the content the first run left.
C7_RerunSameOutput ==
    (pc = "done" /\ runs >= 2) =>
        /\ fs[outputPath] = outBefore
        /\ outputPath = "Hoi-OlderAdults-Waveform" \o "_ECA" \o ".csv"

C7_Witness ==
    /\ pc = "done"
    /\ runs = 2
    /\ Len(fs[outputPath].rows) >= 3
    /\ \E i \in 1..Len(convertedFlow) : convertedFlow[i] # <<0, 1, 0>>

\* C8: with the interpolation and the conversion constant fixed, doubling
\* meanFlowRate doubles every flow rate, and scaling keeps the length of
\* the sequence and the time grid.
C8_ScalingLinear ==
    LET doubled == ScaleFlow(RMul(RInt(2), cfg.meanFlowRate), interpCCA, conversionConst)
    IN  pc \in {"scaled", "done"} =>
            /\ Len(convertedFlow) = Len(interpCCA)
            /\ Len(doubled) = Len(convertedFlow)
            /\ \A i \in 1..Len(convertedFlow) :
                  doubled[i] = SciMul(<<2, 1, 0>>, convertedFlow[i])
            /\ t = arange(cfg.t_0, RAdd(cfg.t_f, cfg.dt), cfg.dt)

C8_Witness ==
    /\ pc = "scaled"
    /\ Len(convertedFlow) >= 3
    /\ \E i \in 1..Len(convertedFlow) : convertedFlow[i] # <<0, 1, 0>>

\* C9: a run enters the stages Load, Interpolate, Scale, Write in this
\* order, each at most once and each after its predecessor completed; a
\* run that completes has entered all four and written the file once.
C9_StageOrder ==
    /\ IsPrefix(log, Stages)
    /\ writes <= 1
    /\ pc \in {"start", "grid"} => Len(log) = 0
    /\ pc = "loaded" => Len(log) = 1
    /\ pc = "interpolated" => Len(log) = 2
    /\ pc = "scaled" => Len(log) = 3
    /\ pc = "done" => (log = Stages /\ writes = 1)
    /\ pc # "done" => writes = 0
    /\ pc = "failed" => Len(log) >= 1

C9_Witness ==
    /\ pc = "done"
    /\ log = <<"Load", "Interpolate", "Scale", "Write">>
    /\ runs = 2

\* C10: a failed load (missing or malformed file) or a failed interpolation
\* (times not strictly increasing, fewer than 2 rows) ends the run: no
\* later stage is entered, the Writer does not run, and the output file is
\* as the run found it.
C10_FailureAborts ==
    LET file == fs[inputPath]
        loadFails == ~file.exists \/ ~file.numeric \/ Len(file.rows) = 0
        interpolationFails ==
            /\ ~loadFails
            /\ \/ Len(file.rows) < 2
               \/ \E i \in 1..(Len(file.rows) - 1) : file.rows[i + 1][1] <= file.rows[i][1]
    IN  /\ loadFails => (Len(log) <= 1 /\ pc \in {"start", "grid", "failed"})
        /\ interpolationFails =>
              (Len(log) <= 2 /\ pc \in {"start", "grid", "loaded", "failed"})
        /\ (loadFails \/ interpolationFails) => fs[outputPath] = outBefore
        /\ pc = "failed" =>
              /\ fs[outputPath] = outBefore
              /\ writes = 0
              /\ ~ENABLED (MakeGrid \/ Load \/ Interpolate \/ Scale \/ Write)

C10_Witness ==
    /\ pc = "failed"
    /\ Len(log) = 2
    /\ Len(InputRows) >= 2
    /\ outBefore.exists

====
